---- MODULE Spec2Model ----
(***************************************************************************)
(* Customer-analytics MCP server: the role-gated account-health workflow   *)
(* (tools/compute-account-health.ts), the read-only query tool            *)
(* (tools/sql-tool.ts), the authentication helpers (mcp/utils.ts) and the  *)
(* HTTP front end (mcp/http-server.ts).                                    *)
(*                                                                         *)
(* Conventions.                                                            *)
(*  - An optional JavaScript value (undefined / null) is a sequence of     *)
(*    length at most one: None is <<>>, Some(v) is <<v>>.                  *)
(*  - An instant is a whole number of ticks, DayTicks ticks to the day     *)
(*    (the code counts milliseconds; 24*3600*1000 of them are one day).    *)
(*  - An amount of money is a whole number of minor units, MoneyScale of   *)
(*    them to the unit, so that amounts below 1 exist.                     *)
(*  - A number that need not be whole (spendDeltaPct, the weighted score)  *)
(*    is an exact fraction [num, den] with den > 0.                        *)
(*  - String(id) is the sequence of the decimal digits of id.              *)
(*  - The code computes in IEEE doubles; the model evaluates the same      *)
(*    expressions exactly.                                                 *)
(***************************************************************************)
EXTENDS Integers, Sequences, FiniteSets, TLC

VARIABLES
  users,        \* mock-data `users`, a static table
  orders,       \* mock-data `orders`, a static table
  pc,           \* where the invocation of execute stands
  options,      \* the tool-call options: options.extra.authInfo, sessionId
  env,          \* process.env.DEMO_API_KEY
  input,        \* context.context: segment, windowDays, limit, includeReasons
  now,          \* new Date() read by the invocation
  auth,         \* the AuthContext of the invocation
  filtered,     \* `filtered`, kept across the await
  npsFetch,     \* the promise of fetchNpsByAccount
  supportFetch, \* the promise of fetchSupportSignals
  response,     \* what execute returned
  error,        \* what the catch block caught (it is only logged)
  trace,        \* the steps the invocation has performed, in order
  gateCall,     \* one call of requireAuth: its arguments and what it threw
  httpReq,      \* the request handleRequest is serving
  httpRes,      \* the response it has written
  sqlCall,      \* one call of run_sql: its arguments and what it returned
  previous,     \* an earlier, completed invocation of execute (history)
  other         \* a second invocation of execute running at the same time

vars == <<users, orders, pc, options, env, input, now, auth, filtered,
          npsFetch, supportFetch, response, error, trace,
          gateCall, httpReq, httpRes, sqlCall, previous, other>>

workflowVars == <<users, orders, pc, options, env, input, now, auth, filtered,
                  npsFetch, supportFetch, response, error, trace>>

----------------------------------------------------------------------------
(* Bounds of the model *)

NumUsers == 12
MaxShift == 1
DayTicks == 2
MoneyScale == 2
NumNpsPatterns == 2
NumSupportPatterns == 2
NumSurplus == 2

----------------------------------------------------------------------------
(* Generic helpers *)

None == <<>>
Some(v) == <<v>>

Min(a, b) == IF a <= b THEN a ELSE b
Max(a, b) == IF a >= b THEN a ELSE b

RECURSIVE SumSeq(_)
SumSeq(s) == IF s = <<>> THEN 0 ELSE Head(s) + SumSeq(Tail(s))

RECURSIVE MaxSeq(_)
MaxSeq(s) == IF Len(s) = 1 THEN s[1] ELSE Max(Head(s), MaxSeq(Tail(s)))

RECURSIVE Flatten(_)
Flatten(ss) == IF ss = <<>> THEN <<>> ELSE Head(ss) \o Flatten(Tail(ss))

Map(s, F(_)) == [i \in 1..Len(s) |-> F(s[i])]

Slice(s, n) == SubSeq(s, 1, Min(n, Len(s)))

Range(s) == {s[i] : i \in 1..Len(s)}

\* clamp with its upper bound forgotten
clampNoUpper(v, lo, hi) == Max(lo, v)

\* clamp = (v, lo, hi) => Math.max(lo, Math.min(hi, v))
clamp(v, lo, hi) == Max(lo, Min(hi, v))

\* Math.round of the fraction n/d (d > 0): the nearest integer, halves up
Round(n, d) == (2 * n + d) \div (2 * d)

RECURSIVE Digits(_)
Digits(n) == IF n < 10 THEN <<n>> ELSE Append(Digits(n \div 10), n % 10)

\* String(user.id)
String(n) == Digits(n)

\* parseInt(id) of a string of decimal digits
RECURSIVE parseInt(_)
parseInt(s) ==
  IF Len(s) = 1 THEN s[1]
  ELSE 10 * parseInt(SubSeq(s, 1, Len(s) - 1)) + s[Len(s)]

RECURSIVE LexLess(_, _)
LexLess(a, b) ==
  IF a = <<>> THEN b # <<>>
  ELSE IF b = <<>> THEN FALSE
  ELSE IF Head(a) # Head(b) THEN Head(a) < Head(b)
  ELSE LexLess(Tail(a), Tail(b))

\* a.localeCompare(b) on strings of digits: -1, 0 or 1
localeCompare(a, b) == IF a = b THEN 0 ELSE IF LexLess(a, b) THEN -1 ELSE 1

----------------------------------------------------------------------------
(* mcp/utils.ts: the identity registry, the resolver and the gate *)

AdminUser ==
  [userId |-> "admin-1", username |-> "admin", role |-> "admin",
   permissions |-> {"read:all", "write:all", "delete:all"}]
AnalystUser ==
  [userId |-> "user-1", username |-> "analyst", role |-> "user",
   permissions |-> {"read:users", "read:orders"}]
ViewerUser ==
  [userId |-> "readonly-1", username |-> "viewer", role |-> "readonly",
   permissions |-> {"read:users"}]

mockUsers ==
  [k \in {"api_key_admin_123", "api_key_user_456", "api_key_readonly_789"} |->
     CASE k = "api_key_admin_123" -> [token |-> k, extra |-> Some(AdminUser)]
       [] k = "api_key_user_456" -> [token |-> k, extra |-> Some(AnalystUser)]
       [] OTHER -> [token |-> k, extra |-> Some(ViewerUser)]]

DefaultApiKey == "api_key_user_456"

Unauthenticated == [isAuthenticated |-> FALSE, user |-> None, sessionId |-> None]

\* The resolver without the built-in default key
authenticateRequestNoDefault(opts, demoApiKey) ==
  IF opts.authInfo # None
  THEN [isAuthenticated |-> TRUE,
        user |-> opts.authInfo[1].extra,
        sessionId |-> opts.sessionId]
  ELSE IF demoApiKey # None /\ demoApiKey[1] \in DOMAIN mockUsers
       THEN [isAuthenticated |-> TRUE,
             user |-> mockUsers[demoApiKey[1]].extra,
             sessionId |-> Some("demo-session")]
       ELSE Unauthenticated

authenticateRequest(opts, demoApiKey) ==
  IF opts.authInfo # None
  THEN [isAuthenticated |-> TRUE,
        user |-> opts.authInfo[1].extra,
        sessionId |-> opts.sessionId]
  ELSE LET apiKey == IF demoApiKey = None THEN DefaultApiKey ELSE demoApiKey[1]
       IN IF apiKey \in DOMAIN mockUsers
          THEN [isAuthenticated |-> TRUE,
                user |-> mockUsers[apiKey].extra,
                sessionId |-> Some("demo-session")]
          ELSE Unauthenticated

\* checkPermission without the admin bypass
checkPermissionNoAdmin(a, permission) ==
  IF ~a.isAuthenticated \/ a.user = None
  THEN FALSE
  ELSE permission \in a.user[1].permissions

checkPermission(a, permission) ==
  IF ~a.isAuthenticated \/ a.user = None
  THEN FALSE
  ELSE permission \in a.user[1].permissions \/ a.user[1].role = "admin"

AuthenticationRequired == <<"Authentication required">>
InsufficientPermission(permission) == <<"Insufficient permissions", permission>>

\* requireAuth that only turns away a known user who lacks the permission
requireAuthKnownUserOnly(a, permission) ==
  IF a.user # None /\ permission # None
     /\ ~(permission[1] \in a.user[1].permissions \/ a.user[1].role = "admin")
  THEN <<"Insufficient permissions", permission[1]>>
  ELSE None

\* What requireAuth throws: None when it returns normally
requireAuth(a, permission) ==
  IF ~a.isAuthenticated
  THEN AuthenticationRequired
  ELSE IF permission # None /\ ~checkPermission(a, permission[1])
       THEN InsufficientPermission(permission[1])
       ELSE None

----------------------------------------------------------------------------
(* mcp/http-server.ts: the credentials the HTTP front end knows *)

validApiKeys ==
  [k \in {"sk-admin-123456789", "sk-user-987654321", "sk-readonly-555666777"} |->
     CASE k = "sk-admin-123456789" -> [token |-> k, extra |-> Some(AdminUser)]
       [] k = "sk-user-987654321" -> [token |-> k, extra |-> Some(AnalystUser)]
       [] OTHER -> [token |-> k, extra |-> Some(ViewerUser)]]

mockJWTUsers ==
  [k \in {"eyJhbGciOiJIUzI1NiIsInR5cCI6IkpXVCJ9.admin",
          "eyJhbGciOiJIUzI1NiIsInR5cCI6IkpXVCJ9.user"} |->
     CASE k = "eyJhbGciOiJIUzI1NiIsInR5cCI6IkpXVCJ9.admin" ->
            [token |-> k,
             extra |-> Some([userId |-> "jwt-admin-1", username |-> "jwt-admin",
                             role |-> "admin",
                             permissions |-> {"read:all", "write:all", "delete:all"}])]
       [] OTHER ->
            [token |-> k,
             extra |-> Some([userId |-> "jwt-user-1", username |-> "jwt-user",
                             role |-> "user",
                             permissions |-> {"read:users", "read:orders"}])]]

\* An Authorization header is its scheme prefix ("Bearer ", "ApiKey " or
\* nothing) followed by `rest`; authHeader.slice(7) of a prefixed header is rest
httpAuthenticateRequest(authHeader) ==
  IF authHeader = None THEN None
  ELSE IF authHeader[1].scheme = "Bearer "
       THEN IF authHeader[1].rest \in DOMAIN mockJWTUsers
            THEN Some(mockJWTUsers[authHeader[1].rest]) ELSE None
  ELSE IF authHeader[1].scheme = "ApiKey "
       THEN IF authHeader[1].rest \in DOMAIN validApiKeys
            THEN Some(validApiKeys[authHeader[1].rest]) ELSE None
  ELSE IF authHeader[1].rest \in DOMAIN validApiKeys
       THEN Some(validApiKeys[authHeader[1].rest]) ELSE None

----------------------------------------------------------------------------
(* mcp/mock-data: the static tables the tools read.  The ledgers below are *)
(* the inputs of the model: NumUsers accounts, each with one of a few      *)
(* order histories, rotated by `shift`.                                    *)

\* The instant `frac` ticks into day `day`
Instant(day, frac) == day * DayTicks + frac

\* The amount of `units` units and `part` minor units
Amount(units, part) == units * MoneyScale + part

OrderProfiles ==
  << <<>>,
     << [total |-> Amount(50, 0),  created |-> Instant(100, 0)],
        [total |-> Amount(300, 0), created |-> Instant(195, 0)] >>,
     << [total |-> Amount(80, 0),  created |-> Instant(150, 0)] >>,
     << [total |-> Amount(150, 0), created |-> Instant(200, 1)] >>,
     << [total |-> Amount(120, 0), created |-> Instant(130, 0)],
        [total |-> Amount(40, 0),  created |-> Instant(190, 0)] >>,
     << [total |-> Amount(80, 0),  created |-> Instant(60, 0)],
        [total |-> Amount(0, 1),   created |-> Instant(150, 0)],
        [total |-> Amount(99, 1),  created |-> Instant(170, 1)] >> >>

ProfileOf(id, shift) == OrderProfiles[((id + shift) % Len(OrderProfiles)) + 1]

Cities == <<"Austin", "Boston", "Chicago">>

UsersTable ==
  [i \in 1..NumUsers |->
     [id |-> i, name |-> <<"user", i>>, city |-> Cities[(i % Len(Cities)) + 1],
      joined |-> Instant(i, 0)]]

OrdersOf(id, shift) ==
  [j \in 1..Len(ProfileOf(id, shift)) |->
     [id |-> <<id, j>>, user_id |-> id,
      total |-> ProfileOf(id, shift)[j].total,
      created |-> ProfileOf(id, shift)[j].created]]

OrdersTable(shift) == Flatten([i \in 1..NumUsers |-> OrdersOf(i, shift)])

\* A ledger without any order
NoOrders == <<>>

\* The instants an invocation may read as `new Date()`
Instants == {Instant(200, 0), Instant(200, 1)}

----------------------------------------------------------------------------
(* tools/compute-account-health.ts: inputs *)

Segments == {"all", "inactive", "highValue"}
WindowDays == {30, 90}
Limits == {1, 11, 200}

AccountHealthInput ==
  [segment : Segments, windowDays : WindowDays, limit : Limits,
   includeReasons : BOOLEAN]

\* Bundles a transport may attach as options.extra.authInfo
HttpAdminInfo == validApiKeys["sk-admin-123456789"]
HttpReadonlyInfo == validApiKeys["sk-readonly-555666777"]
OrdersOnlyInfo ==
  [token |-> "sk-orders-only",
   extra |-> Some([userId |-> "user-2", username |-> "clerk", role |-> "user",
                   permissions |-> {"read:orders"}])]
BareInfo == [token |-> "sk-bare", extra |-> None]

\* The (options.extra.authInfo, DEMO_API_KEY) pairs an invocation may see
Credentials ==
  { [authInfo |-> None, DEMO_API_KEY |-> None],
    [authInfo |-> None, DEMO_API_KEY |-> Some("api_key_admin_123")],
    [authInfo |-> None, DEMO_API_KEY |-> Some("api_key_readonly_789")],
    [authInfo |-> None, DEMO_API_KEY |-> Some("not_a_key")],
    [authInfo |-> Some(HttpReadonlyInfo), DEMO_API_KEY |-> None],
    [authInfo |-> Some(HttpAdminInfo), DEMO_API_KEY |-> Some("not_a_key")],
    [authInfo |-> Some(OrdersOnlyInfo), DEMO_API_KEY |-> None],
    [authInfo |-> Some(BareInfo), DEMO_API_KEY |-> None] }

----------------------------------------------------------------------------
(* Step 1: per-account metrics from the order data *)

SafetyCap == 500
ReadonlyCap == 10

spendDeltaPct(spendWindow, spendPrevWindow) ==
  IF spendWindow = 0 /\ spendPrevWindow = 0
  THEN [num |-> 0, den |-> 1]
  ELSE IF spendPrevWindow # 0
       THEN [num |-> (spendWindow - spendPrevWindow) * 100, den |-> spendPrevWindow]
       ELSE [num |-> spendWindow * 100, den |-> MoneyScale]

coreMetrics(user, t, windowDays) ==
  LET since == t - windowDays * DayTicks
      prevSince == since - windowDays * DayTicks
      userOrders == SelectSeq(orders, LAMBDA o : o.user_id = user.id)
      lastOrder ==
        IF Len(userOrders) > 0
        THEN MaxSeq(Map(userOrders, LAMBDA o : o.created))
        ELSE 0
      lastOrderDays ==
        IF lastOrder > 0 THEN (t - lastOrder) \div DayTicks ELSE 999
      windowOrders == SelectSeq(userOrders, LAMBDA o : o.created >= since)
      spendWindow == SumSeq(Map(windowOrders, LAMBDA o : o.total))
      prevWindowOrders ==
        SelectSeq(userOrders,
                  LAMBDA o : o.created >= prevSince /\ o.created < since)
      spendPrevWindow == SumSeq(Map(prevWindowOrders, LAMBDA o : o.total))
  IN [accountId |-> String(user.id),
      name |-> user.name,
      core |-> [lastOrderDays |-> lastOrderDays,
                orderCountWindow |-> Len(windowOrders),
                spendWindow |-> spendWindow,
                spendPrevWindow |-> spendPrevWindow,
                spendDeltaPct |-> spendDeltaPct(spendWindow, spendPrevWindow)]]

aggregate(t, windowDays) == Map(users, LAMBDA u : coreMetrics(u, t, windowDays))

(* Step 2: segment filter, then the safety cap *)

\* The filter with the inactivity threshold of the "no recent orders" reason
segmentFilterThreshold60(m, segment) ==
  IF segment = "inactive" THEN m.core.lastOrderDays > 60
  ELSE IF segment = "highValue" THEN m.core.spendWindow >= 100 * MoneyScale
  ELSE TRUE

segmentFilter(m, segment) ==
  IF segment = "inactive" THEN m.core.lastOrderDays > 45
  ELSE IF segment = "highValue" THEN m.core.spendWindow >= 100 * MoneyScale
  ELSE TRUE

\* Step 2 without the safety cap
filterSegmentNoCap(metrics, segment) ==
  SelectSeq(metrics, LAMBDA m : segmentFilter(m, segment))

filterSegment(metrics, segment) ==
  Slice(SelectSeq(metrics, LAMBDA m : segmentFilter(m, segment)), SafetyCap)

----------------------------------------------------------------------------
(* Step 3: the two external sources.  The repository's sources are mocks   *)
(* of remote systems: a call settles after a delay with one record per     *)
(* requested account, drawn at random.  The model draws the response from  *)
(* a few patterns inside the ranges the mocks produce, and lets a call     *)
(* reject, as a call to the remote system the mock stands for can.         *)

\* Math.round(baseScore + variation) - baseScore, or None for "no NPS data"
NpsOffsets == <<None, Some(-10), Some(0), Some(10), Some(-7)>>

npsOf(id, pattern) ==
  LET userId == parseInt(id)
      baseScore == 50 + (userId % 40) - 20
      variation == NpsOffsets[((userId + pattern) % Len(NpsOffsets)) + 1]
  IN IF variation = None THEN None
     ELSE Some(Max(0, Min(100, baseScore + variation[1])))

fetchNpsByAccount(accountIds, pattern) ==
  [id \in Range(accountIds) |-> npsOf(id, pattern)]

SupportCycle ==
  << [openP1Tickets |-> 0, slaBreachesWindow |-> 0],
     [openP1Tickets |-> 1, slaBreachesWindow |-> 1],
     [openP1Tickets |-> 0, slaBreachesWindow |-> 2],
     [openP1Tickets |-> 3, slaBreachesWindow |-> 0] >>

supportOf(id, pattern) ==
  SupportCycle[((parseInt(id) + pattern) % Len(SupportCycle)) + 1]

fetchSupportSignals(accountIds, pattern) ==
  [id \in Range(accountIds) |-> supportOf(id, pattern)]

Pending(ids) == [status |-> "pending", ids |-> ids, value |-> None]
Fulfilled(p, v) == [status |-> "fulfilled", ids |-> p.ids, value |-> Some(v)]
Rejected(p) == [status |-> "rejected", ids |-> p.ids, value |-> None]
NoFetch == [status |-> "none", ids |-> <<>>, value |-> None]

----------------------------------------------------------------------------
(* Step 4: scoring *)

\* The reasons with the empty-window reason pushed first
reasonsOfWindowFirst(m) ==
  (IF m.orderCountWindow = 0
   THEN << <<"No orders in analysis window">> >> ELSE <<>>)
  \o (IF m.lastOrderDays > 60 THEN << <<"No recent orders (>60 days)">> >> ELSE <<>>)
  \o (IF m.spendDeltaPct.num < (-30) * m.spendDeltaPct.den
      THEN << <<"Spend down >30% vs prior window">> >> ELSE <<>>)
  \o (IF (IF m.nps = None THEN 50 ELSE m.nps[1]) < 30
      THEN << <<"Low NPS score">> >> ELSE <<>>)
  \o (IF m.openP1Tickets > 0
      THEN << <<m.openP1Tickets, "open P1 support ticket(s)">> >> ELSE <<>>)
  \o (IF m.slaBreachesWindow > 0
      THEN << <<m.slaBreachesWindow, "recent SLA breach(es)">> >> ELSE <<>>)

\* The reasons of scoreAccount, in the order it pushes them
reasonsOf(m) ==
  (IF m.lastOrderDays > 60 THEN << <<"No recent orders (>60 days)">> >> ELSE <<>>)
  \o (IF m.spendDeltaPct.num < (-30) * m.spendDeltaPct.den
      THEN << <<"Spend down >30% vs prior window">> >> ELSE <<>>)
  \o (IF (IF m.nps = None THEN 50 ELSE m.nps[1]) < 30
      THEN << <<"Low NPS score">> >> ELSE <<>>)
  \o (IF m.openP1Tickets > 0
      THEN << <<m.openP1Tickets, "open P1 support ticket(s)">> >> ELSE <<>>)
  \o (IF m.slaBreachesWindow > 0
      THEN << <<m.slaBreachesWindow, "recent SLA breach(es)">> >> ELSE <<>>)
  \o (IF m.orderCountWindow = 0
      THEN << <<"No orders in analysis window">> >> ELSE <<>>)

\* score >= 75 ? "good" : score >= 50 ? "watch" : "at_risk", score = num/den
tierOf(score) ==
  IF score.num >= 75 * score.den THEN "good"
  ELSE IF score.num >= 50 * score.den THEN "watch"
  ELSE "at_risk"

\* The weighted score with the weights of satisfaction and reliability swapped
weightedScoreSwappedWeights(m) ==
  LET d == m.spendDeltaPct.den
      recency == clamp(100 - m.lastOrderDays, 0, 100)
      momentumNum == clamp(m.spendDeltaPct.num + 100 * d, 0, 200 * d)
      satisfaction == IF m.nps = None THEN 50 ELSE clamp(m.nps[1], 0, 100)
      reliabilityPenalty ==
        clamp(100 - (m.openP1Tickets * 25 + m.slaBreachesWindow * 15), 0, 100)
  IN [num |-> clamp(60 * d * recency + 30 * momentumNum
                    + 30 * d * satisfaction + 50 * d * reliabilityPenalty,
                    0, 100 * 200 * d),
      den |-> 200 * d]

\* The weighted score with a missing NPS counted as 0
weightedScoreNullAsZero(m) ==
  LET d == m.spendDeltaPct.den
      recency == clamp(100 - m.lastOrderDays, 0, 100)
      momentumNum == clamp(m.spendDeltaPct.num + 100 * d, 0, 200 * d)
      satisfaction == IF m.nps = None THEN 0 ELSE clamp(m.nps[1], 0, 100)
      reliabilityPenalty ==
        clamp(100 - (m.openP1Tickets * 25 + m.slaBreachesWindow * 15), 0, 100)
  IN [num |-> clamp(60 * d * recency + 30 * momentumNum
                    + 50 * d * satisfaction + 30 * d * reliabilityPenalty,
                    0, 100 * 200 * d),
      den |-> 200 * d]

\* recency*0.3 + momentum*0.3 + satisfaction*0.25 + reliabilityPenalty*0.15,
\* clamped to 0..100, as the fraction num/den with den = 200 * d, where d is
\* the denominator of spendDeltaPct and momentum = momentumNum / (2 * d)
weightedScore(m) ==
  LET d == m.spendDeltaPct.den
      recency == clamp(100 - m.lastOrderDays, 0, 100)
      momentumNum == clamp(m.spendDeltaPct.num + 100 * d, 0, 200 * d)
      satisfaction == IF m.nps = None THEN 50 ELSE clamp(m.nps[1], 0, 100)
      reliabilityPenalty ==
        clamp(100 - (m.openP1Tickets * 25 + m.slaBreachesWindow * 15), 0, 100)
  IN [num |-> clamp(60 * d * recency + 30 * momentumNum
                    + 50 * d * satisfaction + 30 * d * reliabilityPenalty,
                    0, 100 * 200 * d),
      den |-> 200 * d]

scoreAccount(m) ==
  LET score == weightedScore(m)
  IN [score |-> score, tier |-> tierOf(score), reasons |-> reasonsOf(m)]

\* `metrics` of one account: core metrics joined with the two responses
combine(f, npsMap, supportMap) ==
  [lastOrderDays |-> f.core.lastOrderDays,
   orderCountWindow |-> f.core.orderCountWindow,
   spendWindow |-> f.core.spendWindow,
   spendPrevWindow |-> f.core.spendPrevWindow,
   spendDeltaPct |-> f.core.spendDeltaPct,
   nps |-> IF f.accountId \in DOMAIN npsMap THEN npsMap[f.accountId] ELSE None,
   openP1Tickets |->
     IF f.accountId \in DOMAIN supportMap
     THEN supportMap[f.accountId].openP1Tickets ELSE 0,
   slaBreachesWindow |->
     IF f.accountId \in DOMAIN supportMap
     THEN supportMap[f.accountId].slaBreachesWindow ELSE 0]

healthScoreOf(score) == Round(score.num, score.den)

scoredRow(f, npsMap, supportMap, includeReasons) ==
  LET metrics == combine(f, npsMap, supportMap)
      scoreResult == scoreAccount(metrics)
  IN IF includeReasons
     THEN [accountId |-> f.accountId, name |-> f.name,
           healthScore |-> healthScoreOf(scoreResult.score),
           tier |-> scoreResult.tier, metrics |-> metrics,
           reasons |-> scoreResult.reasons]
     ELSE [accountId |-> f.accountId, name |-> f.name,
           healthScore |-> healthScoreOf(scoreResult.score),
           tier |-> scoreResult.tier, metrics |-> metrics]

----------------------------------------------------------------------------
(* Step 5: worst first *)

\* The comparator breaking ties by the number the id spells
compareNumericIds(a, b) ==
  IF a.healthScore - b.healthScore # 0
  THEN a.healthScore - b.healthScore
  ELSE parseInt(a.accountId) - parseInt(b.accountId)

\* a.healthScore - b.healthScore || a.accountId.localeCompare(b.accountId)
compare(a, b) ==
  IF a.healthScore - b.healthScore # 0
  THEN a.healthScore - b.healthScore
  ELSE localeCompare(a.accountId, b.accountId)

RECURSIVE Insert(_, _)
Insert(x, s) ==
  IF s = <<>> THEN <<x>>
  ELSE IF compare(x, Head(s)) <= 0 THEN <<x>> \o s
  ELSE <<Head(s)>> \o Insert(x, Tail(s))

\* scored.sort(compare): the comparator is a total order on distinct ids
RECURSIVE sort(_)
sort(s) == IF s = <<>> THEN <<>> ELSE Insert(Head(s), sort(Tail(s)))

(* Role-based limits and Step 6: summary *)

\* The limit without the readonly cap
roleLimitNoCap(a, limit) == limit

roleLimit(a, limit) ==
  IF a.user # None /\ a.user[1].role = "readonly"
  THEN Min(limit, ReadonlyCap)
  ELSE limit

Count(s, P(_)) == Len(SelectSeq(s, P))

segmentBreakdown(finalResults) ==
  [t \in {r.tier : r \in Range(finalResults)} |->
     Count(finalResults, LAMBDA r : r.tier = t)]

\* The mean rounded down
avgHealthScoreFloor(finalResults) ==
  IF Len(finalResults) > 0
  THEN SumSeq(Map(finalResults, LAMBDA r : r.healthScore)) \div Len(finalResults)
  ELSE 0

avgHealthScore(finalResults) ==
  IF Len(finalResults) > 0
  THEN Round(SumSeq(Map(finalResults, LAMBDA r : r.healthScore)),
             Len(finalResults))
  ELSE 0

summarize(finalResults, npsMap, supportMap) ==
  [totalAnalyzed |-> Len(finalResults),
   segmentBreakdown |-> segmentBreakdown(finalResults),
   avgHealthScore |-> avgHealthScore(finalResults),
   externalDataCoverage |->
     [npsAvailable |-> Cardinality({id \in DOMAIN npsMap : npsMap[id] # None}),
      supportDataAvailable |-> Cardinality(DOMAIN supportMap)]]

\* What the catch block returns
EmptyResult ==
  [accounts |-> <<>>,
   summary |-> [totalAnalyzed |-> 0,
                segmentBreakdown |-> [t \in {} |-> 0],
                avgHealthScore |-> 0,
                externalDataCoverage |->
                  [npsAvailable |-> 0, supportDataAvailable |-> 0]]]

\* The code after the await with a module-level memory of the accounts
\* reported by an earlier call, which are left out
finishSkippingSeen(a, in, flt, npsMap, supportMap) ==
  LET seen == IF previous = None \/ previous[1].response = None THEN {}
              ELSE {r.accountId : r \in Range(previous[1].response[1].accounts)}
      fresh == SelectSeq(flt, LAMBDA f : f.accountId \notin seen)
      scored == Map(fresh, LAMBDA f : scoredRow(f, npsMap, supportMap, in.includeReasons))
      finalResults == Slice(sort(scored), roleLimit(a, in.limit))
  IN [accounts |-> finalResults,
      summary |-> summarize(finalResults, npsMap, supportMap)]

\* The code after the await, given the two resolved maps
finish(a, in, flt, npsMap, supportMap) ==
  LET scored == Map(flt, LAMBDA f : scoredRow(f, npsMap, supportMap, in.includeReasons))
      finalResults == Slice(sort(scored), roleLimit(a, in.limit))
  IN [accounts |-> finalResults,
      summary |-> summarize(finalResults, npsMap, supportMap)]

----------------------------------------------------------------------------
(* computeAccountHealthTool.execute as a state machine.  The code runs     *)
(* without interruption from its entry to the await of Promise.all, and    *)
(* again from the settling of Promise.all to its return.                   *)

NoGateCall ==
  [phase |-> "none", context |-> Unauthenticated, permission |-> None,
   thrown |-> None]

NoRequest == [method |-> "GET", pathname |-> "/", authorization |-> None]

NoResponse == [phase |-> "none", status |-> None, body |-> "", mcpStarted |-> FALSE]

DefaultInput ==
  [segment |-> "all", windowDays |-> 90, limit |-> 50, includeReasons |-> TRUE]

NoOptions == [authInfo |-> None, sessionId |-> None]

NoSqlCall ==
  [phase |-> "none", sql |-> <<>>, limit |-> 50, options |-> NoOptions,
   env |-> None, result |-> None]

\* No second invocation
NoOther ==
  [pc |-> "idle", options |-> NoOptions, env |-> None, input |-> DefaultInput,
   now |-> Instant(200, 0), auth |-> Unauthenticated, filtered |-> <<>>,
   npsFetch |-> NoFetch, supportFetch |-> NoFetch, response |-> None,
   error |-> None, overlapped |-> FALSE]

Init ==
  /\ users = UsersTable
  /\ orders \in {OrdersTable(shift) : shift \in 0..MaxShift} \cup {NoOrders}
  /\ pc = "idle"
  /\ options = NoOptions
  /\ env = None
  /\ input = DefaultInput
  /\ now = Instant(200, 0)
  /\ auth = Unauthenticated
  /\ filtered = <<>>
  /\ npsFetch = NoFetch
  /\ supportFetch = NoFetch
  /\ response = None
  /\ error = None
  /\ trace = <<>>
  /\ gateCall = NoGateCall
  /\ httpReq = NoRequest
  /\ httpRes = NoResponse
  /\ sqlCall = NoSqlCall
  /\ previous = None
  /\ other = NoOther

\* A client calls the tool
Invoke ==
  /\ pc = "idle"
  /\ \E c \in Credentials, in \in AccountHealthInput, t \in Instants :
       /\ options' = [authInfo |-> c.authInfo,
                      sessionId |-> IF c.authInfo = None THEN None
                                    ELSE Some("session-1")]
       /\ env' = c.DEMO_API_KEY
       /\ input' = in
       /\ now' = t
  /\ pc' = "called"
  /\ UNCHANGED <<other, gateCall, httpReq, httpRes, sqlCall, previous, users, orders, auth, filtered, npsFetch, supportFetch,
                 response, error, trace>>

\* A catch block that logs the error and throws it again
catchRethrow(e, steps) ==
  /\ error' = e
  /\ response' = None
  /\ trace' = steps \o <<"catch", "throw">>
  /\ pc' = "done"

\* A catch block that returns the cause with the empty result
catchReportsCause(e, steps) ==
  /\ error' = e
  /\ response' = Some([accounts |-> <<>>,
                       summary |-> EmptyResult.summary,
                       error |-> e])
  /\ trace' = steps \o <<"catch", "return">>
  /\ pc' = "done"

\* The catch block: log the error, return the empty result
catch(e, steps) ==
  /\ error' = e
  /\ response' = Some(EmptyResult)
  /\ trace' = steps \o <<"catch", "return">>
  /\ pc' = "done"

\* From the entry of execute to the await of Promise.all
Execute ==
  /\ pc = "called"
  /\ LET a == authenticateRequest(options, env)
         thrown == requireAuth(a, Some("read:users"))
         flt == filterSegment(aggregate(now, input.windowDays), input.segment)
         accountIds == Map(flt, LAMBDA f : f.accountId)
     IN /\ auth' = a
        /\ IF thrown # None
           THEN /\ catch(thrown, <<"authenticateRequest", "requireAuth">>)
                /\ UNCHANGED <<filtered, npsFetch, supportFetch>>
           ELSE /\ filtered' = flt
                /\ npsFetch' = Pending(accountIds)
                /\ supportFetch' = Pending(accountIds)
                /\ trace' = <<"authenticateRequest", "requireAuth", "aggregate",
                              "filter", "fetchNpsByAccount", "fetchSupportSignals">>
                /\ pc' = "awaiting"
                /\ UNCHANGED <<response, error>>
  /\ UNCHANGED <<other, gateCall, httpReq, httpRes, sqlCall, previous, users, orders, options, env, input, now>>

NpsResolve ==
  /\ npsFetch.status = "pending"
  /\ \E pattern \in 1..NumNpsPatterns :
       npsFetch' = Fulfilled(npsFetch, fetchNpsByAccount(npsFetch.ids, pattern))
  /\ UNCHANGED <<other, gateCall, httpReq, httpRes, sqlCall, previous, users, orders, pc, options, env, input, now, auth, filtered,
                 supportFetch, response, error, trace>>

NpsReject ==
  /\ npsFetch.status = "pending"
  /\ npsFetch' = Rejected(npsFetch)
  /\ UNCHANGED <<other, gateCall, httpReq, httpRes, sqlCall, previous, users, orders, pc, options, env, input, now, auth, filtered,
                 supportFetch, response, error, trace>>

SupportResolve ==
  /\ supportFetch.status = "pending"
  /\ \E pattern \in 1..NumSupportPatterns :
       supportFetch' =
         Fulfilled(supportFetch, fetchSupportSignals(supportFetch.ids, pattern))
  /\ UNCHANGED <<other, gateCall, httpReq, httpRes, sqlCall, previous, users, orders, pc, options, env, input, now, auth, filtered,
                 npsFetch, response, error, trace>>

SupportReject ==
  /\ supportFetch.status = "pending"
  /\ supportFetch' = Rejected(supportFetch)
  /\ UNCHANGED <<other, gateCall, httpReq, httpRes, sqlCall, previous, users, orders, pc, options, env, input, now, auth, filtered,
                 npsFetch, response, error, trace>>

\* Promise.all fulfilled: both maps are there, the rest of the try block runs
ResumeFulfilled ==
  /\ pc = "awaiting"
  /\ npsFetch.status = "fulfilled"
  /\ supportFetch.status = "fulfilled"
  /\ response' = Some(finish(auth, input, filtered,
                             npsFetch.value[1], supportFetch.value[1]))
  /\ trace' = trace \o <<"score", "sort", "limit", "summary", "return">>
  /\ pc' = "done"
  /\ UNCHANGED <<other, gateCall, httpReq, httpRes, sqlCall, previous, users, orders, options, env, input, now, auth, filtered,
                 npsFetch, supportFetch, error>>

\* Promise.all rejects as soon as one of its promises rejects
ResumeRejected ==
  /\ pc = "awaiting"
  /\ "rejected" \in {npsFetch.status, supportFetch.status}
  /\ catch(<<"External source failed">>, trace)
  /\ UNCHANGED <<other, gateCall, httpReq, httpRes, sqlCall, previous, users, orders, options, env, input, now, auth, filtered,
                 npsFetch, supportFetch>>

\* The response is delivered; nothing of the invocation is kept
Return ==
  /\ pc = "done"
  /\ pc' = "idle"
  /\ options' = NoOptions
  /\ env' = None
  /\ input' = DefaultInput
  /\ now' = Instant(200, 0)
  /\ auth' = Unauthenticated
  /\ filtered' = <<>>
  /\ npsFetch' = NoFetch
  /\ supportFetch' = NoFetch
  /\ response' = None
  /\ error' = None
  /\ trace' = <<>>
  /\ UNCHANGED <<other, gateCall, httpReq, httpRes, sqlCall, previous, users, orders>>

Next ==
  \/ Invoke
  \/ Execute
  \/ NpsResolve
  \/ NpsReject
  \/ SupportResolve
  \/ SupportReject
  \/ ResumeFulfilled
  \/ ResumeRejected
  \/ Return

Spec == Init /\ [][Next]_vars

\* The event loop runs every continuation that is ready, and each external
\* source eventually answers or fails a request that is pending.  The steps
\* that satisfy Continue are those of ResumeFulfilled.
\* The control part of ResumeFulfilled: once Promise.all is fulfilled, the
\* continuation of the await runs to the return
Continue ==
  /\ pc = "awaiting"
  /\ npsFetch.status = "fulfilled"
  /\ supportFetch.status = "fulfilled"
  /\ pc' = "done"

Fairness ==
  /\ WF_vars(Execute)
  /\ WF_vars(NpsResolve \/ NpsReject)
  /\ WF_vars(SupportResolve \/ SupportReject)
  /\ WF_pc(Continue)
  /\ WF_vars(ResumeRejected)

\* Calls of stdio clients over a 30-day window at one instant
InvokeLive ==
  /\ Invoke
  /\ options'.authInfo = None
  /\ input'.windowDays = 30
  /\ input'.limit = 1
  /\ ~input'.includeReasons
  /\ now' = Instant(200, 0)

InitLive == Init /\ orders = OrdersTable(0)

NextLive ==
  \/ InvokeLive
  \/ Execute
  \/ NpsResolve
  \/ NpsReject
  \/ SupportResolve
  \/ SupportReject
  \/ ResumeFulfilled
  \/ ResumeRejected
  \/ Return

SpecLive == InitLive /\ [][NextLive]_vars /\ Fairness

----------------------------------------------------------------------------
(* A ledger with more accounts than the safety cap lets through: the      *)
(* accounts of UsersTable followed by accounts that never ordered.  Both   *)
(* sources are down, so that every authorized call ends in the catch block. *)

ManyUsersTable ==
  [i \in 1..(SafetyCap + NumSurplus) |->
     [id |-> i, name |-> <<"user", i>>, city |-> Cities[(i % Len(Cities)) + 1],
      joined |-> Instant(i, 0)]]

InitCap ==
  /\ users = ManyUsersTable
  /\ orders = OrdersTable(0)
  /\ pc = "idle"
  /\ options = NoOptions
  /\ env = None
  /\ input = DefaultInput
  /\ now = Instant(200, 0)
  /\ auth = Unauthenticated
  /\ filtered = <<>>
  /\ npsFetch = NoFetch
  /\ supportFetch = NoFetch
  /\ response = None
  /\ error = None
  /\ trace = <<>>
  /\ gateCall = NoGateCall
  /\ httpReq = NoRequest
  /\ httpRes = NoResponse
  /\ sqlCall = NoSqlCall
  /\ previous = None
  /\ other = NoOther

NextCap ==
  \/ Invoke
  \/ Execute
  \/ NpsReject
  \/ SupportReject
  \/ ResumeRejected
  \/ Return

SpecCap == InitCap /\ [][NextCap]_vars

----------------------------------------------------------------------------
(* Two invocations of execute at the same time.  The event loop runs one   *)
(* invocation from its entry to its await, or from the settling of its     *)
(* Promise.all to its return, before it runs anything of the other one.    *)
(* The second invocation has its own copy of every local of execute, kept   *)
(* in `other`; `overlapped` records that it started while the first        *)
(* invocation was waiting.                                                  *)

ConcCredentials ==
  { [authInfo |-> None, DEMO_API_KEY |-> None],
    [authInfo |-> None, DEMO_API_KEY |-> Some("api_key_readonly_789")],
    [authInfo |-> None, DEMO_API_KEY |-> Some("not_a_key")] }

ConcInputs ==
  { [segment |-> "all", windowDays |-> 30, limit |-> 11, includeReasons |-> TRUE],
    [segment |-> "highValue", windowDays |-> 90, limit |-> 1,
     includeReasons |-> FALSE] }

InitConc == Init /\ orders = OrdersTable(0)

InvokeConc ==
  /\ Invoke
  /\ [authInfo |-> options'.authInfo, DEMO_API_KEY |-> env'] \in ConcCredentials
  /\ input' \in ConcInputs
  /\ now' = Instant(200, 0)

InvokeOther ==
  /\ other.pc = "idle"
  /\ \E c \in ConcCredentials, in \in ConcInputs :
       other' = [other EXCEPT !.pc = "called",
                              !.options = [authInfo |-> c.authInfo,
                                           sessionId |-> None],
                              !.env = c.DEMO_API_KEY,
                              !.input = in,
                              !.now = Instant(200, 1)]
  /\ UNCHANGED <<workflowVars, gateCall, httpReq, httpRes, sqlCall, previous>>

\* execute with `filtered` declared at module level: the second invocation
\* overwrites the value the first one kept across its await
ExecuteOtherSharedFiltered ==
  /\ other.pc = "called"
  /\ LET a == authenticateRequest(other.options, other.env)
         thrown == requireAuth(a, Some("read:users"))
         flt == filterSegment(aggregate(other.now, other.input.windowDays),
                              other.input.segment)
         accountIds == Map(flt, LAMBDA f : f.accountId)
     IN IF thrown # None
        THEN /\ other' = [other EXCEPT !.auth = a,
                                       !.error = thrown,
                                       !.response = Some(EmptyResult),
                                       !.overlapped = (pc = "awaiting"),
                                       !.pc = "done"]
             /\ UNCHANGED filtered
        ELSE /\ other' = [other EXCEPT !.auth = a,
                                       !.filtered = flt,
                                       !.npsFetch = Pending(accountIds),
                                       !.supportFetch = Pending(accountIds),
                                       !.overlapped = (pc = "awaiting"),
                                       !.pc = "awaiting"]
             /\ filtered' = flt
  /\ UNCHANGED <<users, orders, pc, options, env, input, now, auth, npsFetch,
                 supportFetch, response, error, trace, gateCall, httpReq,
                 httpRes, sqlCall, previous>>

\* From the entry of execute to the await of Promise.all
ExecuteOther ==
  /\ other.pc = "called"
  /\ LET a == authenticateRequest(other.options, other.env)
         thrown == requireAuth(a, Some("read:users"))
         flt == filterSegment(aggregate(other.now, other.input.windowDays),
                              other.input.segment)
         accountIds == Map(flt, LAMBDA f : f.accountId)
     IN other' = IF thrown # None
                 THEN [other EXCEPT !.auth = a,
                                    !.error = thrown,
                                    !.response = Some(EmptyResult),
                                    !.overlapped = (pc = "awaiting"),
                                    !.pc = "done"]
                 ELSE [other EXCEPT !.auth = a,
                                    !.filtered = flt,
                                    !.npsFetch = Pending(accountIds),
                                    !.supportFetch = Pending(accountIds),
                                    !.overlapped = (pc = "awaiting"),
                                    !.pc = "awaiting"]
  /\ UNCHANGED <<workflowVars, gateCall, httpReq, httpRes, sqlCall, previous>>

NpsResolveOther ==
  /\ other.npsFetch.status = "pending"
  /\ \E pattern \in 1..NumNpsPatterns :
       other' = [other EXCEPT !.npsFetch =
                   Fulfilled(other.npsFetch,
                             fetchNpsByAccount(other.npsFetch.ids, pattern))]
  /\ UNCHANGED <<workflowVars, gateCall, httpReq, httpRes, sqlCall, previous>>

NpsRejectOther ==
  /\ other.npsFetch.status = "pending"
  /\ other' = [other EXCEPT !.npsFetch = Rejected(other.npsFetch)]
  /\ UNCHANGED <<workflowVars, gateCall, httpReq, httpRes, sqlCall, previous>>

SupportResolveOther ==
  /\ other.supportFetch.status = "pending"
  /\ \E pattern \in 1..NumSupportPatterns :
       other' = [other EXCEPT !.supportFetch =
                   Fulfilled(other.supportFetch,
                             fetchSupportSignals(other.supportFetch.ids, pattern))]
  /\ UNCHANGED <<workflowVars, gateCall, httpReq, httpRes, sqlCall, previous>>

SupportRejectOther ==
  /\ other.supportFetch.status = "pending"
  /\ other' = [other EXCEPT !.supportFetch = Rejected(other.supportFetch)]
  /\ UNCHANGED <<workflowVars, gateCall, httpReq, httpRes, sqlCall, previous>>

\* Promise.all fulfilled: the rest of the try block runs
ResumeFulfilledOther ==
  /\ other.pc = "awaiting"
  /\ other.npsFetch.status = "fulfilled"
  /\ other.supportFetch.status = "fulfilled"
  /\ other' = [other EXCEPT
                 !.response = Some(finish(other.auth, other.input, other.filtered,
                                          other.npsFetch.value[1],
                                          other.supportFetch.value[1])),
                 !.pc = "done"]
  /\ UNCHANGED <<workflowVars, gateCall, httpReq, httpRes, sqlCall, previous>>

\* Promise.all rejected: the catch block returns the empty result
ResumeRejectedOther ==
  /\ other.pc = "awaiting"
  /\ "rejected" \in {other.npsFetch.status, other.supportFetch.status}
  /\ other' = [other EXCEPT !.error = <<"External source failed">>,
                            !.response = Some(EmptyResult),
                            !.pc = "done"]
  /\ UNCHANGED <<workflowVars, gateCall, httpReq, httpRes, sqlCall, previous>>

\* The response is delivered; nothing of the invocation is kept
ReturnOther ==
  /\ other.pc = "done"
  /\ other' = NoOther
  /\ UNCHANGED <<workflowVars, gateCall, httpReq, httpRes, sqlCall, previous>>

NextConc ==
  \/ InvokeConc
  \/ Execute
  \/ NpsResolve
  \/ NpsReject
  \/ SupportResolve
  \/ SupportReject
  \/ ResumeFulfilled
  \/ ResumeRejected
  \/ Return
  \/ InvokeOther
  \/ ExecuteOther
  \/ NpsResolveOther
  \/ NpsRejectOther
  \/ SupportResolveOther
  \/ SupportRejectOther
  \/ ResumeFulfilledOther
  \/ ResumeRejectedOther
  \/ ReturnOther

SpecConc == InitConc /\ [][NextConc]_vars

----------------------------------------------------------------------------
(* The same call made again.  `previous` remembers the first completed     *)
(* invocation: what it was given, what the two sources answered and what   *)
(* it returned; the client then repeats the call.                          *)

FirstInvoke ==
  /\ previous = None
  /\ Invoke

\* The first invocation returns and is remembered
Remember ==
  /\ pc = "done"
  /\ previous = None
  /\ previous' = Some([options |-> options, env |-> env, input |-> input,
                       now |-> now, orders |-> orders, npsFetch |-> npsFetch,
                       supportFetch |-> supportFetch, response |-> response])
  /\ pc' = "idle"
  /\ options' = NoOptions
  /\ env' = None
  /\ input' = DefaultInput
  /\ now' = Instant(200, 0)
  /\ auth' = Unauthenticated
  /\ filtered' = <<>>
  /\ npsFetch' = NoFetch
  /\ supportFetch' = NoFetch
  /\ response' = None
  /\ error' = None
  /\ trace' = <<>>
  /\ UNCHANGED <<other, gateCall, httpReq, httpRes, sqlCall, users, orders>>

\* The same caller calls again with the same parameters at the same instant
RepeatInvoke ==
  /\ pc = "idle"
  /\ previous # None
  /\ options' = previous[1].options
  /\ env' = previous[1].env
  /\ input' = previous[1].input
  /\ now' = previous[1].now
  /\ pc' = "called"
  /\ UNCHANGED <<other, gateCall, httpReq, httpRes, sqlCall, previous, users, orders,
                 auth, filtered, npsFetch, supportFetch, response, error, trace>>

ReturnAgain ==
  /\ previous # None
  /\ Return

NextRepeat ==
  \/ FirstInvoke
  \/ RepeatInvoke
  \/ Execute
  \/ NpsResolve
  \/ NpsReject
  \/ SupportResolve
  \/ SupportReject
  \/ ResumeFulfilled
  \/ ResumeRejected
  \/ Remember
  \/ ReturnAgain

InitRepeat ==
  /\ Init
  /\ orders = OrdersTable(0)

SpecRepeat == InitRepeat /\ [][NextRepeat]_vars

----------------------------------------------------------------------------
(* requireAuth on its own: every AuthContext, every permission argument *)

Roles == {"admin", "user", "readonly"}
PermissionNames == {"read:users", "read:orders", "write:all"}

Principals ==
  [userId : {"u"}, username : {"n"}, role : Roles,
   permissions : SUBSET PermissionNames]

AuthContexts ==
  [isAuthenticated : BOOLEAN,
   user : {None} \cup {Some(u) : u \in Principals},
   sessionId : {None}]

PermissionArgs == {None} \cup {Some(p) : p \in PermissionNames}

CallRequireAuth ==
  /\ gateCall.phase = "none"
  /\ \E a \in AuthContexts, permission \in PermissionArgs :
       gateCall' = [phase |-> "done", context |-> a, permission |-> permission,
                    thrown |-> requireAuth(a, permission)]
  /\ UNCHANGED <<other, workflowVars, httpReq, httpRes, sqlCall, previous>>

GateReturn ==
  /\ gateCall.phase = "done"
  /\ gateCall' = NoGateCall
  /\ UNCHANGED <<other, workflowVars, httpReq, httpRes, sqlCall, previous>>

InitGate ==
  /\ Init
  /\ orders = OrdersTable(0)

NextGate == CallRequireAuth \/ GateReturn

SpecGate == InitGate /\ [][NextGate]_vars

----------------------------------------------------------------------------
(* mcp/http-server.ts: handleRequest *)

Methods == {"GET", "POST", "OPTIONS"}
Pathnames == {"/health", "/mcp", "/auth/info"}

AuthorizationHeaders ==
  {None} \cup
  {Some([scheme |-> sch, rest |-> r]) :
     sch \in {"Bearer ", "ApiKey ", ""},
     r \in {"sk-user-987654321", "eyJhbGciOiJIUzI1NiIsInR5cCI6IkpXVCJ9.user",
            "sk-revoked-000"}}

HttpReceive ==
  /\ httpRes.phase = "none"
  /\ \E m \in Methods, path \in Pathnames, h \in AuthorizationHeaders :
       httpReq' = [method |-> m, pathname |-> path, authorization |-> h]
  /\ httpRes' = [httpRes EXCEPT !.phase = "received"]
  /\ UNCHANGED <<other, workflowVars, gateCall, sqlCall, previous>>

Ended(status, body, mcpStarted) ==
  [phase |-> "ended", status |-> Some(status), body |-> body,
   mcpStarted |-> mcpStarted]

\* From the entry of handleRequest to its return or to the await of startHTTP
handleRequest ==
  /\ httpRes.phase = "received"
  /\ httpRes' =
       IF httpReq.method = "OPTIONS" THEN Ended(200, "", FALSE)
       ELSE IF httpReq.pathname = "/health" THEN Ended(200, "healthy", FALSE)
       ELSE IF httpReq.pathname = "/mcp"
            THEN [phase |-> "startHTTP", status |-> None, body |-> "",
                  mcpStarted |-> TRUE]
       ELSE Ended(404, "Not found", FALSE)
  /\ UNCHANGED <<other, workflowVars, gateCall, httpReq, sqlCall, previous>>

\* server.startHTTP served the request: the MCP server wrote the response
StartHttpReturns ==
  /\ httpRes.phase = "startHTTP"
  /\ httpRes' = Ended(200, "mcp", TRUE)
  /\ UNCHANGED <<other, workflowVars, gateCall, httpReq, sqlCall, previous>>

\* server.startHTTP threw: the catch block answers 500
StartHttpThrows ==
  /\ httpRes.phase = "startHTTP"
  /\ httpRes' = Ended(500, "Internal server error", TRUE)
  /\ UNCHANGED <<other, workflowVars, gateCall, httpReq, sqlCall, previous>>

HttpClose ==
  /\ httpRes.phase = "ended"
  /\ httpReq' = NoRequest
  /\ httpRes' = NoResponse
  /\ UNCHANGED <<other, workflowVars, gateCall, sqlCall, previous>>

InitHttp ==
  /\ Init
  /\ orders = OrdersTable(0)

NextHttp ==
  \/ HttpReceive
  \/ handleRequest
  \/ StartHttpReturns
  \/ StartHttpThrows
  \/ HttpClose

SpecHttp == InitHttp /\ [][NextHttp]_vars

----------------------------------------------------------------------------
(* tools/sql-tool.ts: run_sql.  A query text is the sequence of its         *)
(* characters, so that trim, toLowerCase, startsWith, includes and the two  *)
(* regular expressions are computed as the code computes them.              *)

LowerCase ==
  <<"a", "b", "c", "d", "e", "f", "g", "h", "i", "j", "k", "l", "m", "n",
    "o", "p", "q", "r", "s", "t", "u", "v", "w", "x", "y", "z">>

UpperCase ==
  <<"A", "B", "C", "D", "E", "F", "G", "H", "I", "J", "K", "L", "M", "N",
    "O", "P", "Q", "R", "S", "T", "U", "V", "W", "X", "Y", "Z">>

DigitChars ==
  <<"0", "1", "2", "3", "4", "5", "6", "7", "8", "9">>

\* The characters \s matches and trim removes, among those of the queries
Whitespace == {" ", "\t", "\n"}

\* The characters \w matches
WordChars == Range(LowerCase) \cup Range(UpperCase) \cup Range(DigitChars) \cup {"_"}

toLowerCase(s) ==
  [i \in 1..Len(s) |->
     IF s[i] \in Range(UpperCase)
     THEN LowerCase[CHOOSE k \in 1..Len(UpperCase) : UpperCase[k] = s[i]]
     ELSE s[i]]

RECURSIVE trimStart(_)
trimStart(s) ==
  IF s # <<>> /\ Head(s) \in Whitespace THEN trimStart(Tail(s)) ELSE s

RECURSIVE trimEnd(_)
trimEnd(s) ==
  IF s # <<>> /\ s[Len(s)] \in Whitespace
  THEN trimEnd(SubSeq(s, 1, Len(s) - 1)) ELSE s

trim(s) == trimEnd(trimStart(s))

startsWith(s, p) == Len(s) >= Len(p) /\ SubSeq(s, 1, Len(p)) = p

includes(s, p) ==
  \E i \in 1..(Len(s) - Len(p) + 1) : SubSeq(s, i, i + Len(p) - 1) = p

\* `${n}` of a positive integer
numberToString(n) == [i \in 1..Len(Digits(n)) |-> DigitChars[Digits(n)[i] + 1]]

sSelect == <<"s", "e", "l", "e", "c", "t">>
sUsers == <<"u", "s", "e", "r", "s">>
sOrders == <<"o", "r", "d", "e", "r", "s">>
sDistinct == <<"d", "i", "s", "t", "i", "n", "c", "t">>
sCity == <<"c", "i", "t", "y">>
sJoin == <<"j", "o", "i", "n">>
sLimit == <<"l", "i", "m", "i", "t">>
sLimitClause == <<" ", "L", "I", "M", "I", "T", " ">>

OnlySelectAllowed == "Only SELECT queries are allowed."
TableNotFound == "Table not found. Available tables: users, orders"

parseSQL(sql) ==
  LET trimmed == toLowerCase(trim(sql))
  IN IF ~startsWith(trimmed, sSelect)
     THEN [table |-> None, operation |-> "invalid", error |-> Some(OnlySelectAllowed)]
     ELSE IF includes(trimmed, sUsers)
          THEN [table |-> Some("users"), operation |-> "select", error |-> None]
     ELSE IF includes(trimmed, sOrders)
          THEN [table |-> Some("orders"), operation |-> "select", error |-> None]
     ELSE [table |-> None, operation |-> "select", error |-> Some(TableNotFound)]

\* [...new Set(users.map((u) => u.city))]: each city once, in order of first use
RECURSIVE distinctCities(_)
distinctCities(us) ==
  IF us = <<>> THEN <<>>
  ELSE LET rest == distinctCities(SubSeq(us, 1, Len(us) - 1))
           city == us[Len(us)].city
       IN IF city \in Range(rest) THEN rest ELSE Append(rest, city)

joinRow(user) ==
  LET userOrders == SelectSeq(orders, LAMBDA o : o.user_id = user.id)
  IN [id |-> user.id, name |-> user.name, city |-> user.city,
      joined |-> user.joined,
      total_spend |-> SumSeq(Map(userOrders, LAMBDA o : o.total)),
      order_count |-> Len(userOrders)]

\* What executeQuery throws (thrown) or returns (rows)
executeQuery(sql, limit) ==
  LET parsed == parseSQL(sql)
      trimmed == toLowerCase(trim(sql))
  IN IF parsed.error # None
     THEN [thrown |-> parsed.error, rows |-> <<>>]
     ELSE IF includes(trimmed, sDistinct) /\ includes(trimmed, sCity)
          THEN [thrown |-> None,
                rows |-> Map(distinctCities(users), LAMBDA c : [city |-> c])]
     ELSE IF includes(trimmed, sJoin)
             \/ (includes(trimmed, sUsers) /\ includes(trimmed, sOrders))
          THEN [thrown |-> None, rows |-> Slice(Map(users, joinRow), limit)]
     ELSE IF parsed.table = Some("users")
          THEN [thrown |-> None, rows |-> Slice(users, limit)]
     ELSE IF parsed.table = Some("orders")
          THEN [thrown |-> None, rows |-> Slice(orders, limit)]
     ELSE [thrown |-> None, rows |-> Slice(users, limit)]

\* /^\s*select/i.test(sql)
selectOnly(sql) == startsWith(toLowerCase(trimStart(sql)), sSelect)

\* /\blimit\b/i.test(sql)
hasLimit(sql) ==
  \E i \in 1..(Len(sql) - Len(sLimit) + 1) :
    /\ toLowerCase(SubSeq(sql, i, i + Len(sLimit) - 1)) = sLimit
    /\ i = 1 \/ sql[i - 1] \notin WordChars
    /\ i + Len(sLimit) > Len(sql) \/ sql[i + Len(sLimit)] \notin WordChars

requiredPermission(sql) ==
  IF parseSQL(sql).table = Some("orders") \/ includes(toLowerCase(sql), sOrders)
  THEN "read:orders"
  ELSE IF includes(toLowerCase(sql), sJoin) \/ includes(toLowerCase(sql), sOrders)
       THEN "read:orders"
       ELSE "read:users"

\* An outer catch block that throws the error again
outerCatchRethrow(message) == None

\* The outer catch block of execute
outerCatch(message) ==
  Some([rows |-> <<>>, rowCount |-> 0,
        metadata |-> [executedBy |-> "unknown", permission |-> "unknown",
                      filteredByRole |-> FALSE, error |-> Some(message)]])

\* runSqlTool.execute: what it returns, None if it throws
runSqlTool(sqlText, limit) ==
  IF ~selectOnly(sqlText)
  THEN outerCatch(OnlySelectAllowed)
  ELSE LET sql == IF ~hasLimit(sqlText)
                  THEN trim(sqlText) \o sLimitClause \o numberToString(limit)
                  ELSE sqlText
           effectiveLimit == limit
           filteredByRole == FALSE
           outcome == executeQuery(sql, effectiveLimit)
       IN IF outcome.thrown = None
          THEN Some([rows |-> outcome.rows, rowCount |-> Len(outcome.rows),
                     metadata |-> [executedBy |-> "unknown",
                                   permission |-> requiredPermission(sqlText),
                                   filteredByRole |-> filteredByRole,
                                   error |-> None]])
          ELSE Some([rows |-> <<>>, rowCount |-> 0,
                     metadata |-> [executedBy |-> "unknown",
                                   permission |-> requiredPermission(sqlText),
                                   filteredByRole |-> filteredByRole,
                                   error |-> outcome.thrown]])

QueryUsers ==
  <<"S", "E", "L", "E", "C", "T", " ", "*", " ", "F", "R", "O", "M", " ",
    "u", "s", "e", "r", "s">>
QueryOrders ==
  <<"s", "e", "l", "e", "c", "t", " ", "*", " ", "f", "r", "o", "m", " ",
    "o", "r", "d", "e", "r", "s">>
QueryOrdersIndented ==
  <<" ", "\n", "\t", "S", "e", "l", "e", "c", "t", " ", "*", " ", "F", "r",
    "o", "m", " ", "O", "r", "d", "e", "r", "s", " ">>
QueryJoin ==
  <<"S", "E", "L", "E", "C", "T", " ", "*", " ", "F", "R", "O", "M", " ",
    "u", "s", "e", "r", "s", " ", "u", " ", "J", "O", "I", "N", " ", "o",
    "r", "d", "e", "r", "s", " ", "o">>
QueryCities ==
  <<"S", "E", "L", "E", "C", "T", " ", "D", "I", "S", "T", "I", "N", "C",
    "T", " ", "c", "i", "t", "y", " ", "F", "R", "O", "M", " ", "u", "s",
    "e", "r", "s">>
QueryUsersLimit ==
  <<"S", "E", "L", "E", "C", "T", " ", "*", " ", "F", "R", "O", "M", " ",
    "u", "s", "e", "r", "s", " ", "L", "I", "M", "I", "T", " ", "5">>
QueryNoTable ==
  <<"S", "E", "L", "E", "C", "T", " ", "1">>
QueryDelete ==
  <<"D", "E", "L", "E", "T", "E", " ", "F", "R", "O", "M", " ", "u", "s",
    "e", "r", "s">>
QueryInsertSelect ==
  <<"I", "N", "S", "E", "R", "T", " ", "I", "N", "T", "O", " ", "u", "s",
    "e", "r", "s", " ", "S", "E", "L", "E", "C", "T", " ", "1">>
QueryDropIndented ==
  <<" ", " ", "d", "r", "o", "p", " ", "t", "a", "b", "l", "e", " ", "o",
    "r", "d", "e", "r", "s">>
QueryEmpty == <<>>

\* The query texts a client may send
Queries ==
  {QueryUsers, QueryOrders, QueryOrdersIndented, QueryJoin, QueryCities,
   QueryUsersLimit, QueryNoTable, QueryDelete, QueryInsertSelect,
   QueryDropIndented, QueryEmpty}

\* RunSqlInput: sql, and limit (a positive integer up to 200)
RunSqlInput == [sql : Queries, limit : Limits]

\* A client calls run_sql: execute runs from its entry to its return
RunSql ==
  /\ sqlCall.phase = "none"
  /\ \E c \in Credentials, in \in RunSqlInput :
       sqlCall' = [phase |-> "done", sql |-> in.sql, limit |-> in.limit,
                   options |-> [authInfo |-> c.authInfo,
                                sessionId |-> IF c.authInfo = None THEN None
                                              ELSE Some("session-1")],
                   env |-> c.DEMO_API_KEY,
                   result |-> runSqlTool(in.sql, in.limit)]
  /\ UNCHANGED <<other, workflowVars, gateCall, httpReq, httpRes, previous>>

SqlReturn ==
  /\ sqlCall.phase = "done"
  /\ sqlCall' = NoSqlCall
  /\ UNCHANGED <<other, workflowVars, gateCall, httpReq, httpRes, previous>>

NextSql == RunSql \/ SqlReturn

SpecSql == Init /\ [][NextSql]_vars

----------------------------------------------------------------------------
(* Properties *)

\* The accounts of the response, once there is one
Accounts == IF response = None THEN <<>> ELSE response[1].accounts

Authorized == requireAuth(authenticateRequest(options, env), Some("read:users")) = None

DownstreamSteps ==
  {"aggregate", "filter", "fetchNpsByAccount", "fetchSupportSignals",
   "score", "sort", "limit", "summary"}

\* C1: an invocation that has ended has returned a response, never thrown;
\* and whenever a step failed (the gate threw, or an external fetch rejected)
\* the response is exactly the empty result with the zeroed summary.
C1_AlwaysAnswers ==
  pc = "done" =>
    /\ response # None
    /\ (\/ error # None
        \/ ~Authorized
        \/ "rejected" \in {npsFetch.status, supportFetch.status})
       => response = Some(EmptyResult)

C1_Witness ==
  /\ pc = "done"
  /\ Authorized
  /\ Len(filtered) > 0
  /\ supportFetch.status = "rejected"
  /\ response = Some(EmptyResult)

\* C2: when the resolved AuthContext is unauthenticated, whatever the
\* parameters, the invocation performs no aggregation, no filter, no fetch
\* and no scoring at any point, and its response is the empty result with
\* totalAnalyzed = 0.
C2_GatePrecedesEverything ==
  (pc # "idle" /\ ~authenticateRequest(options, env).isAuthenticated) =>
    /\ pc \in {"called", "done"}
    /\ Range(trace) \cap DownstreamSteps = {}
    /\ filtered = <<>>
    /\ npsFetch = NoFetch
    /\ supportFetch = NoFetch
    /\ pc = "done" =>
         /\ response = Some(EmptyResult)
         /\ response[1].summary.totalAnalyzed = 0

C2_Witness ==
  /\ pc = "done"
  /\ ~auth.isAuthenticated
  /\ input.segment = "highValue"
  /\ input.limit = 200
  /\ response = Some(EmptyResult)

\* The credential a call supplies: the transport's token, else DEMO_API_KEY
SuppliedCredential ==
  IF options.authInfo # None THEN Some(options.authInfo[1].token) ELSE env

KnownCredentials ==
  DOMAIN mockUsers \cup DOMAIN validApiKeys \cup DOMAIN mockJWTUsers

C4_Gate ==
  gateCall.phase = "done" =>
    LET a == gateCall.context
        permission == gateCall.permission
        allowed ==
          \/ permission = None
          \/ /\ a.user # None
             /\ \/ a.user[1].role = "admin"
                \/ permission[1] \in a.user[1].permissions
    IN /\ gateCall.thrown = None <=> (a.isAuthenticated /\ allowed)
       /\ gateCall.thrown = AuthenticationRequired <=> ~a.isAuthenticated
       /\ (a.isAuthenticated /\ ~allowed)
            => gateCall.thrown = InsufficientPermission(permission[1])

C4_Witness ==
  /\ gateCall.phase = "done"
  /\ gateCall.context.isAuthenticated
  /\ gateCall.context.user # None
  /\ gateCall.context.user[1].role = "admin"
  /\ gateCall.permission = Some("read:users")
  /\ "read:users" \notin gateCall.context.user[1].permissions
  /\ gateCall.thrown = None

\* C5: a request to /mcp whose Authorization header is missing or matches no
\* known API key or JWT is answered 401 and never reaches the MCP server;
\* /health is served without authentication.
C5_McpRequiresAuth ==
  (httpRes.phase \in {"startHTTP", "ended"} /\ httpReq.method # "OPTIONS") =>
    /\ (httpReq.pathname = "/mcp"
        /\ httpAuthenticateRequest(httpReq.authorization) = None)
         => /\ ~httpRes.mcpStarted
            /\ httpRes.phase = "ended"
            /\ httpRes.status = Some(401)
    /\ httpReq.pathname = "/health" => httpRes.status = Some(200)

\* C6: every returned account's healthScore is an integer from 0 to 100.
C6_ScoreInRange ==
  \A i \in 1..Len(Accounts) : Accounts[i].healthScore \in 0..100

C6_Witness ==
  /\ pc = "done"
  /\ \E i \in 1..Len(Accounts) :
       /\ Accounts[i].metrics.spendDeltaPct.num
            > 100 * Accounts[i].metrics.spendDeltaPct.den
       /\ Accounts[i].metrics.lastOrderDays < 0
       /\ Accounts[i].healthScore \in 0..100

\* C7: every returned record's tier is the one its healthScore gives:
\* good from 75, watch from 50 to 74, at_risk below 50.
C7_TierFromHealthScore ==
  \A i \in 1..Len(Accounts) :
    Accounts[i].tier =
      IF Accounts[i].healthScore >= 75 THEN "good"
      ELSE IF Accounts[i].healthScore >= 50 THEN "watch"
      ELSE "at_risk"

\* C8: a completed invocation returns min(limit, roleCap(role), accounts left
\* after the segment filter and the safety cap) accounts, with
\* roleCap(readonly) = 10 and roleCap(other) = limit; no response carries more
\* than the limit, and none to a readonly caller more than 10.
C8_RoleCap ==
  pc = "done" =>
    LET role == IF auth.user = None THEN "none" ELSE auth.user[1].role
        roleCap == IF role = "readonly" THEN 10 ELSE input.limit
    IN /\ Len(Accounts) <= input.limit
       /\ Len(Accounts) <= roleCap
       /\ error = None =>
            Len(Accounts) = Min(Min(input.limit, roleCap), Len(filtered))

C8_Witness ==
  /\ pc = "done"
  /\ error = None
  /\ auth.user[1].role = "readonly"
  /\ input.limit = 200
  /\ Len(filtered) > 10
  /\ Len(Accounts) = 10

\* C9: the returned accounts are sorted worst first: healthScore never
\* decreases along the list, and among neighbours of equal healthScore the
\* accountId strings never decrease in string order.
C9_WorstFirst ==
  \A i \in 1..(Len(Accounts) - 1) :
    \/ Accounts[i].healthScore < Accounts[i + 1].healthScore
    \/ /\ Accounts[i].healthScore = Accounts[i + 1].healthScore
       /\ ~LexLess(Accounts[i + 1].accountId, Accounts[i].accountId)

C9_Witness ==
  /\ pc = "done"
  /\ \E i \in 1..(Len(Accounts) - 1) :
       /\ Accounts[i].healthScore = Accounts[i + 1].healthScore
       /\ parseInt(Accounts[i].accountId) > parseInt(Accounts[i + 1].accountId)
  /\ \E i \in 1..(Len(Accounts) - 1) :
       Accounts[i].healthScore < Accounts[i + 1].healthScore

\* The response map of a source that failed: no record for any account
NoRecords == [id \in {} |-> None]

\* C10: when one external source rejects and the other resolves, the call
\* still returns the scored accounts, the failed source's fields at their
\* defaults (nps null, openP1Tickets 0, slaBreachesWindow 0).
C10_DegradesOneSource ==
  (/\ pc = "done"
   /\ {npsFetch.status, supportFetch.status} = {"rejected", "fulfilled"}) =>
    response =
      Some(finish(auth, input, filtered,
                  IF npsFetch.status = "fulfilled"
                  THEN npsFetch.value[1] ELSE NoRecords,
                  IF supportFetch.status = "fulfilled"
                  THEN supportFetch.value[1] ELSE NoRecords))

\* The result of the run_sql call, once it has returned one
SqlRows == IF sqlCall.result = None THEN <<>> ELSE sqlCall.result[1].rows

\* The AuthContext of the caller of run_sql
SqlCaller == authenticateRequest(sqlCall.options, sqlCall.env)

\* C11: run_sql returns rows only when the caller is authenticated and holds
\* the permission the query text requires (read:orders when the text touches
\* orders or a join, read:users otherwise, an admin always); a caller holding
\* only read:users never receives rows of the orders table.
C11_SqlGate ==
  (sqlCall.phase = "done" /\ SqlRows # <<>>) =>
    LET text == toLowerCase(sqlCall.sql)
        permission ==
          IF includes(text, sOrders) \/ includes(text, sJoin)
          THEN "read:orders" ELSE "read:users"
    IN /\ SqlCaller.isAuthenticated
       /\ checkPermission(SqlCaller, permission)
       /\ (SqlCaller.user # None /\ SqlCaller.user[1].permissions = {"read:users"})
            => \A i \in 1..Len(SqlRows) : "user_id" \notin DOMAIN SqlRows[i]

\* The text begins, after leading whitespace and in any letter case, with SELECT
BeginsWithSelect(text) ==
  LET body == trimStart(text)
  IN /\ Len(body) >= Len(sSelect)
     /\ \A i \in 1..Len(sSelect) :
          \E k \in 1..Len(LowerCase) :
            /\ sSelect[i] = LowerCase[k]
            /\ body[i] \in {LowerCase[k], UpperCase[k]}

\* C12: every call of run_sql returns a result (it never throws); for a
\* text that does not begin with SELECT the result is rows = [], rowCount = 0
\* and metadata.error = "Only SELECT queries are allowed."; no step changes
\* the users or the orders table.
C12_SelectOnly ==
  /\ [](sqlCall.phase = "done" =>
          /\ sqlCall.result # None
          /\ ~BeginsWithSelect(sqlCall.sql) =>
               /\ sqlCall.result[1].rows = <<>>
               /\ sqlCall.result[1].rowCount = 0
               /\ sqlCall.result[1].metadata.error = Some(OnlySelectAllowed))
  /\ [][users' = users /\ orders' = orders]_vars

C12_Witness ==
  /\ sqlCall.phase = "done"
  /\ sqlCall.sql = QueryInsertSelect
  /\ sqlCall.result # None
  /\ sqlCall.result[1].rows = <<>>
  /\ sqlCall.result[1].metadata.error = Some(OnlySelectAllowed)

\* C13: for every accepted query and every limit, rowCount is the number of
\* rows and is at most the requested limit.
C13_ImplicitLimit ==
  (sqlCall.phase = "done" /\ sqlCall.result # None
   /\ sqlCall.result[1].metadata.error = None) =>
    /\ sqlCall.result[1].rowCount = Len(SqlRows)
    /\ sqlCall.result[1].rowCount <= sqlCall.limit

\* C14: a readonly caller receives at most 10 rows whatever the limit, and
\* metadata.filteredByRole is true exactly when the caller received fewer
\* rows than the query yields under the requested limit.
C14_RoleRows ==
  (sqlCall.phase = "done" /\ sqlCall.result # None) =>
    /\ (SqlCaller.user # None /\ SqlCaller.user[1].role = "readonly")
         => Len(SqlRows) <= 10
    /\ sqlCall.result[1].metadata.filteredByRole
         <=> (/\ sqlCall.result[1].metadata.error = None
              /\ Len(SqlRows) < Len(executeQuery(sqlCall.sql, sqlCall.limit).rows))

\* The invocation got past the gate: `filtered` holds Step 2's result
Aggregated == pc \in {"awaiting", "done"} /\ Range(trace) \cap DownstreamSteps # {}

\* C15: for every account spendDeltaPct is 0 when the spend of both windows
\* is 0, and otherwise (spend - prevSpend) / max(prevSpend, 1) * 100, also
\* for a prevSpend strictly between 0 and 1.
C15_SpendDelta ==
  Aggregated =>
    \A i \in 1..Len(filtered) :
      LET c == filtered[i].core
      IN IF c.spendWindow = 0 /\ c.spendPrevWindow = 0
         THEN c.spendDeltaPct.num = 0
         ELSE c.spendDeltaPct.num * Max(c.spendPrevWindow, MoneyScale)
                = (c.spendWindow - c.spendPrevWindow) * 100 * c.spendDeltaPct.den

\* The segment predicate on an account's lastOrderDays and spendWindow
InSegment(segment, lastOrderDays, spendWindow) ==
  CASE segment = "inactive" -> lastOrderDays > 45
    [] segment = "highValue" -> spendWindow >= 100 * MoneyScale
    [] OTHER -> TRUE

\* C16: the accounts kept by Step 2, and the accounts returned, all satisfy
\* the predicate of the requested segment (inactive: lastOrderDays > 45,
\* highValue: spendWindow >= 100, all: no condition), and every account of the
\* ledger whose metrics satisfy it is kept (the ledger being within the
\* safety cap).
C16_SegmentFilter ==
  Aggregated =>
    /\ \A i \in 1..Len(filtered) :
         InSegment(input.segment, filtered[i].core.lastOrderDays,
                   filtered[i].core.spendWindow)
    /\ \A i \in 1..Len(Accounts) :
         InSegment(input.segment, Accounts[i].metrics.lastOrderDays,
                   Accounts[i].metrics.spendWindow)
    /\ \A k \in 1..Len(users) :
         LET c == coreMetrics(users[k], now, input.windowDays).core
         IN (Len(users) <= SafetyCap
             /\ InSegment(input.segment, c.lastOrderDays, c.spendWindow))
              => \E i \in 1..Len(filtered) :
                   filtered[i].accountId = String(users[k].id)

C16_Witness ==
  /\ pc = "done"
  /\ input.segment = "inactive"
  /\ Len(Accounts) > 0
  /\ Len(filtered) < Len(users)
  /\ \E i \in 1..Len(Accounts) : Accounts[i].metrics.lastOrderDays \in 46..60

\* C17: a returned account without a satisfaction signal (nps = null) has
\* the healthScore and the tier it would have with a signal of exactly 50, and
\* its reasons never include the low-satisfaction reason.
C17_MissingNpsNeutral ==
  \A i \in 1..Len(Accounts) :
    Accounts[i].metrics.nps = None =>
      LET neutral == scoreAccount([Accounts[i].metrics EXCEPT !.nps = Some(50)])
      IN /\ Accounts[i].healthScore = healthScoreOf(neutral.score)
         /\ Accounts[i].tier = neutral.tier
         /\ "reasons" \in DOMAIN Accounts[i] =>
              <<"Low NPS score">> \notin Range(Accounts[i].reasons)

C17_Witness ==
  /\ pc = "done"
  /\ input.includeReasons
  /\ \E i \in 1..Len(Accounts) :
       /\ Accounts[i].metrics.nps = None
       /\ Accounts[i].reasons # <<>>
       /\ Accounts[i].healthScore > 0
  /\ \E i \in 1..Len(Accounts) :
       <<"Low NPS score">> \in Range(Accounts[i].reasons)

OrdersBetween(id, from, to) ==
  SelectSeq(orders, LAMBDA o : o.user_id = id /\ from <= o.created /\ o.created < to)

\* C19: for every account orderCountWindow and spendWindow count exactly its
\* orders with now - window <= created < now, and spendPrevWindow sums exactly
\* those with now - 2*window <= created < now - window; an order dated at or
\* after now is counted in neither.
C19_Windows ==
  Aggregated =>
    \A i \in 1..Len(filtered) :
      LET id == parseInt(filtered[i].accountId)
          since == now - input.windowDays * DayTicks
          prevSince == now - 2 * input.windowDays * DayTicks
          inWindow == OrdersBetween(id, since, now)
          inPrev == OrdersBetween(id, prevSince, since)
      IN /\ filtered[i].core.orderCountWindow = Len(inWindow)
         /\ filtered[i].core.spendWindow = SumSeq(Map(inWindow, LAMBDA o : o.total))
         /\ filtered[i].core.spendPrevWindow = SumSeq(Map(inPrev, LAMBDA o : o.total))

\* C20: for every account lastOrderDays is the whole number of days since
\* its most recent order, 999 when it has no order, and never negative.
C20_LastOrderDays ==
  Aggregated =>
    \A i \in 1..Len(filtered) :
      LET id == parseInt(filtered[i].accountId)
          own == SelectSeq(orders, LAMBDA o : o.user_id = id)
          d == filtered[i].core.lastOrderDays
      IN /\ d >= 0
         /\ own = <<>> => d = 999
         /\ own # <<>> =>
              \E k \in 1..Len(own) :
                /\ \A j \in 1..Len(own) : own[j].created <= own[k].created
                /\ d * DayTicks <= now - own[k].created
                /\ now - own[k].created < (d + 1) * DayTicks

\* The ids of the accounts of the ledger that pass the segment predicate, in
\* the order of the ledger
PassingIds ==
  LET passing ==
        SelectSeq(users,
                  LAMBDA u :
                    LET c == coreMetrics(u, now, input.windowDays).core
                    IN InSegment(input.segment, c.lastOrderDays, c.spendWindow))
  IN [i \in 1..Len(passing) |-> String(passing[i].id)]

\* C21: whatever the limit and the role, the account ids sent to each
\* external source are exactly the first 500 (at most) accounts that pass the
\* segment predicate, and the filter step precedes both dispatches.
C21_CapBeforeFetch ==
  (npsFetch.status # "none" \/ supportFetch.status # "none") =>
    /\ npsFetch.ids = SubSeq(PassingIds, 1, Min(500, Len(PassingIds)))
    /\ supportFetch.ids = npsFetch.ids
    /\ Len(npsFetch.ids) <= 500
    /\ \E i, j, k \in 1..Len(trace) :
         /\ trace[i] = "filter"
         /\ trace[j] = "fetchNpsByAccount"
         /\ trace[k] = "fetchSupportSignals"
         /\ i < j
         /\ i < k

C21_Witness ==
  /\ pc = "awaiting"
  /\ Len(PassingIds) > 500
  /\ Len(npsFetch.ids) = 500
  /\ input.limit = 1
  /\ auth.user # None
  /\ auth.user[1].role = "readonly"

\* How many times step `name` occurs in the trace of the invocation
Occurrences(name) == Len(SelectSeq(trace, LAMBDA step : step = name))

\* C22: an authorized invocation dispatches exactly one request to each
\* source, both before it waits, and neither scores nor returns until both
\* requests have settled, fulfilled or rejected.
C22_FanOutFanIn ==
  Aggregated =>
    /\ Occurrences("fetchNpsByAccount") = 1
    /\ Occurrences("fetchSupportSignals") = 1
    /\ npsFetch.status # "none"
    /\ supportFetch.status # "none"
    /\ (pc = "done" \/ Occurrences("score") > 0) =>
         /\ npsFetch.status \in {"fulfilled", "rejected"}
         /\ supportFetch.status \in {"fulfilled", "rejected"}

\* C23: the response to an unauthenticated call, to an authenticated call
\* lacking read:users, and to an authorized call whose segment matches no
\* account is one and the same value: no account, the zeroed summary and no
\* other field.
C23_FailureOpaque ==
  (/\ pc = "done"
   /\ \/ ~auth.isAuthenticated
      \/ ~checkPermission(auth, "read:users")
      \/ error = None /\ filtered = <<>>)
    => response = Some(EmptyResult)

C23_Witness ==
  /\ pc = "done"
  /\ error = None
  /\ Authorized
  /\ filtered = <<>>
  /\ npsFetch.status = "fulfilled"
  /\ supportFetch.status = "fulfilled"
  /\ response = Some(EmptyResult)

C25_Reasons ==
  \A i \in 1..Len(Accounts) :
    LET m == Accounts[i].metrics
        conditions ==
          << m.lastOrderDays > 60,
             m.spendDeltaPct.num < (-30) * m.spendDeltaPct.den,
             m.nps # None /\ m.nps[1] < 30,
             m.openP1Tickets > 0,
             m.slaBreachesWindow > 0,
             m.orderCountWindow = 0 >>
        texts ==
          << <<"No recent orders (>60 days)">>,
             <<"Spend down >30% vs prior window">>,
             <<"Low NPS score">>,
             <<m.openP1Tickets, "open P1 support ticket(s)">>,
             <<m.slaBreachesWindow, "recent SLA breach(es)">>,
             <<"No orders in analysis window">> >>
        holding == {k \in 1..6 : conditions[k]}
    IN IF input.includeReasons
       THEN /\ "reasons" \in DOMAIN Accounts[i]
            /\ Len(Accounts[i].reasons) = Cardinality(holding)
            /\ \A k \in holding :
                 Accounts[i].reasons[Cardinality({j \in holding : j <= k})] = texts[k]
       ELSE "reasons" \notin DOMAIN Accounts[i]

C25_Witness ==
  /\ pc = "done"
  /\ input.includeReasons
  /\ \E i \in 1..Len(Accounts) :
       /\ Len(Accounts[i].reasons) >= 3
       /\ Accounts[i].metrics.orderCountWindow = 0
       /\ Accounts[i].metrics.openP1Tickets > 0
  /\ \E i \in 1..Len(Accounts) : Accounts[i].reasons = <<>>

\* The summary of the response, once there is one
Summary == IF response = None THEN EmptyResult.summary ELSE response[1].summary

\* C26: in every response totalAnalyzed is the number of returned accounts,
\* segmentBreakdown has one count per tier that occurs, equal to the number of
\* returned accounts of that tier (so the counts sum to totalAnalyzed), and
\* avgHealthScore is the mean of the returned healthScores rounded to the
\* nearest integer, 0 when no account is returned, hence within 0..100.
C26_SummaryConsistent ==
  response # None =>
    LET total == SumSeq([i \in 1..Len(Accounts) |-> Accounts[i].healthScore])
        avg == Summary.avgHealthScore
    IN /\ Summary.totalAnalyzed = Len(Accounts)
       /\ DOMAIN Summary.segmentBreakdown =
            {Accounts[i].tier : i \in 1..Len(Accounts)}
       /\ \A t \in DOMAIN Summary.segmentBreakdown :
            Summary.segmentBreakdown[t] =
              Cardinality({i \in 1..Len(Accounts) : Accounts[i].tier = t})
       /\ avg \in 0..100
       /\ IF Len(Accounts) = 0 THEN avg = 0
          ELSE /\ (2 * avg - 1) * Len(Accounts) <= 2 * total
               /\ 2 * total < (2 * avg + 1) * Len(Accounts)

C26_Witness ==
  /\ pc = "done"
  /\ Len(Accounts) >= 3
  /\ Cardinality(DOMAIN Summary.segmentBreakdown) >= 2
  /\ LET total == SumSeq([i \in 1..Len(Accounts) |-> Accounts[i].healthScore])
     IN /\ total % Len(Accounts) # 0
        /\ Summary.avgHealthScore * Len(Accounts) > total

\* C27: in every response npsAvailable is the number of returned accounts
\* whose metrics.nps is not null, and supportDataAvailable does not exceed
\* totalAnalyzed.
C27_CoverageOfReturned ==
  response # None =>
    /\ Summary.externalDataCoverage.npsAvailable =
         Cardinality({i \in 1..Len(Accounts) : Accounts[i].metrics.nps # None})
    /\ Summary.externalDataCoverage.supportDataAvailable <= Summary.totalAnalyzed

\* Every invocation that was made eventually has its response
EventuallyReturns == (pc = "called") ~> (pc = "done")

\* A response is there only once both requests have settled
ReturnsOnlySettled ==
  [](pc = "done" /\ Aggregated =>
       /\ npsFetch.status # "pending"
       /\ supportFetch.status # "pending")

\* C29: when both external fetches eventually settle, every invocation
\* eventually returns a response; and since there is no timeout, an invocation
\* never returns while one of its fetches has not settled.
C29_ReturnsExactlyWhenSettled == EventuallyReturns /\ ReturnsOnlySettled

\* What one invocation returns when nothing else runs: the gate, then the
\* catch block when a fetch failed, else the scored accounts of its own
\* segment
AloneResult(o, e, in, t, npsF, supF) ==
  LET a == authenticateRequest(o, e)
  IN IF requireAuth(a, Some("read:users")) # None THEN EmptyResult
     ELSE IF "rejected" \in {npsF.status, supF.status} THEN EmptyResult
     ELSE finish(a, in, filterSegment(aggregate(t, in.windowDays), in.segment),
                 npsF.value[1], supF.value[1])

\* C28: no step changes the user table or the order ledger, and under every
\* interleaving of two invocations each returns what it would return alone
\* with the same instant and the same answers of the external sources.
C28_NoSharedState ==
  /\ [][users' = users /\ orders' = orders]_vars
  /\ [](pc = "done" =>
          response = Some(AloneResult(options, env, input, now,
                                      npsFetch, supportFetch)))
  /\ [](other.pc = "done" =>
          other.response = Some(AloneResult(other.options, other.env,
                                            other.input, other.now,
                                            other.npsFetch, other.supportFetch)))

C28_Witness ==
  /\ pc = "done"
  /\ other.pc = "done"
  /\ other.overlapped
  /\ users = UsersTable
  /\ orders = OrdersTable(0)
  /\ input # other.input
  /\ response[1].accounts # <<>>
  /\ other.response[1].accounts # <<>>
  /\ response # other.response

====
